---- MODULE Spec2Model ----
(***************************************************************************)
(* Model of src/inLinux/E04Fork.cpp: main() calls fork() once, reports     *)
(* which side of the call it is on, and the original then calls fork() a   *)
(* second time and reports again.  Processes are the entries of a process  *)
(* table indexed by process identifier; every process runs the same text   *)
(* of main with its own copy of pid and of the stdio buffer of stdout.     *)
(***************************************************************************)
EXTENDS Integers, Sequences, FiniteSets, TLC

\* Size of the process-identifier space of the modelled system.
MaxPid == 4

PidPool == 1..MaxPid

\* fork() reports failure with a negative value (tested by pid < 0).
ForkFailed == -1

\* fork() returns 0 in the new process (the final else branches, pid == 0).
ForkChild == 0

\* return 0 at the end of main.
ExitSuccess == 0

\* The two ways stdio buffers stdout: line buffered (a terminal) or fully
\* buffered (a pipe or a file).
Modes == {"line", "full"}

VARIABLES
    mode,     \* how stdout is buffered in this run
    orig,     \* identifier of the process that was started by the user
    st,       \* process table: "free", "running" or "zombie" per identifier
    pc,       \* position of each process in main
    pid,      \* each process's copy of the local variable pid
    buf,      \* each process's copy of the stdio buffer of stdout
    parent,   \* parent of each process; 0 when it is outside the table
    out,      \* the lines written to the combined standard output, in order
    hist,     \* history: the fork calls, printf calls and exits, in order
    obs       \* history: the value each process saw each fork call return

vars == <<mode, orig, st, pc, pid, buf, parent, out, hist, obs>>

----------------------------------------------------------------------------
\* The text of main.

\* Mutant: the failure test is missing, so a failed call is reported as B.
Report1LineNoFailBranch(v) ==
    IF v > 0 THEN [mark |-> "A", id |-> v, stmt |-> 11]
    ELSE [mark |-> "B", id |-> 0, stmt |-> 15]

\* Lines 7-16: the line printed after the first fork, chosen by the value of
\* pid.  stmt is the source line of the printf that runs.
Report1Line(v) ==
    IF v < 0 THEN [mark |-> "F", id |-> 0, stmt |-> 8]
    ELSE IF v > 0 THEN [mark |-> "A", id |-> v, stmt |-> 11]
    ELSE [mark |-> "B", id |-> 0, stmt |-> 15]

\* Mutant: the parent and child branches of the second report are swapped.
Report2LineSwapped(v) ==
    IF v < 0 THEN [mark |-> "F", id |-> 0, stmt |-> 22]
    ELSE IF v > 0 THEN [mark |-> "C", id |-> 0, stmt |-> 29]
    ELSE [mark |-> "A", id |-> v, stmt |-> 25]

\* Mutant: the second A line is printed without the value of pid.
Report2LineNoId(v) ==
    IF v < 0 THEN [mark |-> "F", id |-> 0, stmt |-> 22]
    ELSE IF v > 0 THEN [mark |-> "A", id |-> 0, stmt |-> 25]
    ELSE [mark |-> "C", id |-> 0, stmt |-> 29]

\* Mutant: the second report tests if (pid) first, so a failed call is
\* reported as a parent's A line.
Report2LineFailAsParent(v) ==
    IF v # 0 THEN [mark |-> "A", id |-> v, stmt |-> 25]
    ELSE [mark |-> "C", id |-> 0, stmt |-> 29]

\* Lines 21-30: the line printed after the second fork.
Report2Line(v) ==
    IF v < 0 THEN [mark |-> "F", id |-> 0, stmt |-> 22]
    ELSE IF v > 0 THEN [mark |-> "A", id |-> v, stmt |-> 25]
    ELSE [mark |-> "C", id |-> 0, stmt |-> 29]

\* Mutant: if (pid) in place of if (pid > 0).
EntersSecondNonZero(v) == v # 0

\* Mutant: if (pid >= 0) in place of if (pid > 0).
EntersSecondNonNegative(v) == v >= 0

\* Line 18: if (pid > 0) guards the second fork.
EntersSecond(v) == v > 0

\* Mutant: a process that does not enter the second block spins instead of
\* returning.
AfterReport1Spin(v) == IF v > 0 THEN "fork2" ELSE "test2"

\* Mutant: the test if (pid > 0) is missing, so every process forks again.
AfterReport1Always(v) == "fork2"

\* Lines 18-33: where a process goes after its first report.
AfterReport1(v) == IF EntersSecond(v) THEN "fork2" ELSE "ret"

\* Mutant: main returns 1 when its last fork call failed.
MainReturnFailure(v) == IF v < 0 THEN 1 ELSE ExitSuccess

\* Line 33: the value main returns.
MainReturn(v) == ExitSuccess

----------------------------------------------------------------------------
\* The platform: fork, stdio and process exit.

Free == {q \in PidPool : st[q] = "free"}

\* Mutant: the identifier of a terminated, unreclaimed process is given out
\* again.
ForkChoicesReuseZombie == {q \in PidPool : st[q] # "running"}

\* The identifiers fork may give a new process: those no process, running or
\* terminated and not yet reclaimed, holds.
ForkChoices == Free

\* The value fork returns in the caller when it created process c.
ForkParentValue(c) == c

\* The stdio buffer the new process starts with: a copy of the caller's.
ForkChildBuf(b) == b

\* Mutant: the parent waits for its children, so any zombie is reclaimed.
CanReapWaited(p) == st[p] = "zombie"

\* A terminated process is reclaimed by its parent's wait; main never waits,
\* so only a process whose parent is outside the table (the original's
\* parent, or init after the parent exited) is reclaimed.
CanReap(p) == st[p] = "zombie" /\ parent[p] = 0

\* Mutant: pid lives in memory the processes share (as after vfork, or a
\* variable in a shared mapping), so the assignment is seen by all of them.
DoForkShared(p, site, next) ==
    \/ /\ pid' = [q \in PidPool |-> IF st[q] # "free" THEN ForkFailed ELSE pid[q]]
       /\ pc' = [pc EXCEPT ![p] = next]
       /\ hist' = Append(hist, [ev |-> "fork", proc |-> p, site |-> site, child |-> 0])
       /\ obs' = obs \cup {[call |-> Len(hist) + 1, proc |-> p, site |-> site,
                           val |-> pid'[p]]}
       /\ UNCHANGED <<st, buf, parent>>
    \/ \E c \in ForkChoices :
          /\ st' = [st EXCEPT ![c] = "running"]
          /\ pid' = [q \in PidPool |->
                        IF q = c THEN ForkChild
                        ELSE IF st[q] # "free" THEN ForkParentValue(c) ELSE pid[q]]
          /\ pc' = [pc EXCEPT ![p] = next, ![c] = next]
          /\ buf' = [buf EXCEPT ![c] = ForkChildBuf(buf[p])]
          /\ parent' = [parent EXCEPT ![c] = p]
          /\ hist' = Append(hist, [ev |-> "fork", proc |-> p, site |-> site, child |-> c])
          /\ obs' = obs \cup {[call |-> Len(hist) + 1, proc |-> p, site |-> site,
                               val |-> pid'[p]],
                              [call |-> Len(hist) + 1, proc |-> c, site |-> site,
                               val |-> pid'[c]]}

\* pid = fork() at `site` (1: line 6, 2: line 20), continuing at `next`.
DoFork(p, site, next) ==
    \/ \* the call fails: no process is created
       /\ pid' = [pid EXCEPT ![p] = ForkFailed]
       /\ pc' = [pc EXCEPT ![p] = next]
       /\ hist' = Append(hist, [ev |-> "fork", proc |-> p, site |-> site, child |-> 0])
       /\ obs' = obs \cup {[call |-> Len(hist) + 1, proc |-> p, site |-> site,
                           val |-> pid'[p]]}
       /\ UNCHANGED <<st, buf, parent>>
    \/ \* the call succeeds: c is the new process, a copy of the caller
       \E c \in ForkChoices :
          /\ st' = [st EXCEPT ![c] = "running"]
          /\ pid' = [pid EXCEPT ![p] = ForkParentValue(c), ![c] = ForkChild]
          /\ pc' = [pc EXCEPT ![p] = next, ![c] = next]
          /\ buf' = [buf EXCEPT ![c] = ForkChildBuf(buf[p])]
          /\ parent' = [parent EXCEPT ![c] = p]
          /\ hist' = Append(hist, [ev |-> "fork", proc |-> p, site |-> site, child |-> c])
          /\ obs' = obs \cup {[call |-> Len(hist) + 1, proc |-> p, site |-> site,
                               val |-> pid'[p]],
                              [call |-> Len(hist) + 1, proc |-> c, site |-> site,
                               val |-> pid'[c]]}

\* write(2) of buffered lines b by process p: the lines as they reach the
\* combined standard output (`by` records the writing process).
Written(b, p) ==
    [i \in 1..Len(b) |->
        [mark |-> b[i].mark, id |-> b[i].id, stmt |-> b[i].stmt,
         from |-> b[i].from, by |-> p]]

\* printf of one newline-terminated line by p: the buffer is written at once
\* when stdout is line buffered, and kept when it is fully buffered.
Printf(p, l) ==
    LET rec == [mark |-> l.mark, id |-> l.id, stmt |-> l.stmt, from |-> p] IN
    /\ hist' = Append(hist, [ev |-> "printf", proc |-> p, mark |-> l.mark,
                                id |-> l.id, stmt |-> l.stmt])
    /\ IF mode = "line"
       THEN /\ out' = out \o Written(Append(buf[p], rec), p)
            /\ buf' = [buf EXCEPT ![p] = <<>>]
       ELSE /\ buf' = [buf EXCEPT ![p] = Append(@, rec)]
            /\ UNCHANGED out

----------------------------------------------------------------------------
\* The steps of a process.

\* Mutant: the report after the first fork is missing.
Fork1SkipsReport(p) ==
    /\ st[p] = "running" /\ pc[p] = "fork1"
    /\ DoFork(p, 1, "test2")
    /\ UNCHANGED <<mode, orig, out>>

Fork1(p) ==
    /\ st[p] = "running" /\ pc[p] = "fork1"
    /\ DoFork(p, 1, "report1")
    /\ UNCHANGED <<mode, orig, out>>

\* Mutant: the first report waits until the children of p have terminated.
Report1Waits(p) ==
    /\ st[p] = "running" /\ pc[p] = "report1"
    /\ \A q \in PidPool : parent[q] = p => st[q] # "running"
    /\ Printf(p, Report1Line(pid[p]))
    /\ pc' = [pc EXCEPT ![p] = "test2"]
    /\ UNCHANGED <<mode, orig, st, pid, parent, obs>>

Report1(p) ==
    /\ st[p] = "running" /\ pc[p] = "report1"
    /\ Printf(p, Report1Line(pid[p]))
    /\ pc' = [pc EXCEPT ![p] = "test2"]
    /\ UNCHANGED <<mode, orig, st, pid, parent, obs>>

Test2(p) ==
    /\ st[p] = "running" /\ pc[p] = "test2"
    /\ pc' = [pc EXCEPT ![p] = AfterReport1(pid[p])]
    /\ UNCHANGED <<mode, orig, st, pid, buf, parent, out, hist, obs>>

Fork2(p) ==
    /\ st[p] = "running" /\ pc[p] = "fork2"
    /\ DoFork(p, 2, "report2")
    /\ UNCHANGED <<mode, orig, out>>

Report2(p) ==
    /\ st[p] = "running" /\ pc[p] = "report2"
    /\ Printf(p, Report2Line(pid[p]))
    /\ pc' = [pc EXCEPT ![p] = "ret"]
    /\ UNCHANGED <<mode, orig, st, pid, parent, obs>>

\* Mutant: the process ends with _exit, which does not flush stdout.
ReturnNoFlush(p) ==
    /\ st[p] = "running" /\ pc[p] = "ret"
    /\ buf' = [buf EXCEPT ![p] = <<>>]
    /\ st' = [st EXCEPT ![p] = "zombie"]
    /\ pc' = [pc EXCEPT ![p] = "done"]
    /\ parent' = [q \in PidPool |-> IF parent[q] = p THEN 0 ELSE parent[q]]
    /\ hist' = Append(hist, [ev |-> "exit", proc |-> p, code |-> MainReturn(pid[p])])
    /\ UNCHANGED <<mode, orig, pid, obs, out>>

\* return from main: exit flushes stdout, the process becomes a zombie and its
\* children are handed to init.
Return(p) ==
    /\ st[p] = "running" /\ pc[p] = "ret"
    /\ out' = out \o Written(buf[p], p)
    /\ buf' = [buf EXCEPT ![p] = <<>>]
    /\ st' = [st EXCEPT ![p] = "zombie"]
    /\ pc' = [pc EXCEPT ![p] = "done"]
    /\ parent' = [q \in PidPool |-> IF parent[q] = p THEN 0 ELSE parent[q]]
    /\ hist' = Append(hist, [ev |-> "exit", proc |-> p, code |-> MainReturn(pid[p])])
    /\ UNCHANGED <<mode, orig, pid, obs>>

\* A terminated process is reclaimed and its identifier becomes free again.
Reap(p) ==
    /\ CanReap(p)
    /\ st' = [st EXCEPT ![p] = "free"]
    /\ pc' = [pc EXCEPT ![p] = "none"]
    /\ pid' = [pid EXCEPT ![p] = 0]
    /\ UNCHANGED <<mode, orig, buf, parent, out, hist, obs>>

Step(p) ==
    \/ Fork1(p)
    \/ Report1(p)
    \/ Test2(p)
    \/ Fork2(p)
    \/ Report2(p)
    \/ Return(p)

Init ==
    /\ mode \in Modes
    /\ orig \in PidPool
    /\ st = [q \in PidPool |-> IF q = orig THEN "running" ELSE "free"]
    /\ pc = [q \in PidPool |-> IF q = orig THEN "fork1" ELSE "none"]
    /\ pid = [q \in PidPool |-> 0]
    /\ buf = [q \in PidPool |-> <<>>]
    /\ parent = [q \in PidPool |-> 0]
    /\ out = <<>>
    /\ hist = <<>>
    /\ obs = {}

Next ==
    \E p \in PidPool :
        \/ Fork1(p)
        \/ Report1(p)
        \/ Test2(p)
        \/ Fork2(p)
        \/ Report2(p)
        \/ Return(p)
        \/ Reap(p)

Spec == Init /\ [][Next]_vars

\* The scheduler is fair to every process: a process that can take a step
\* eventually takes one.
FairSpec == Init /\ [][Next]_vars /\ \A p \in PidPool : WF_vars(Step(p))

----------------------------------------------------------------------------
\* Vocabulary of the properties.

ForkIdx == {i \in DOMAIN hist : hist[i].ev = "fork"}
PrintIdx == {i \in DOMAIN hist : hist[i].ev = "printf"}
ExitIdx == {i \in DOMAIN hist : hist[i].ev = "exit"}

\* A fork call at `site` has succeeded / has failed.
Succeeded(site) ==
    \E i \in ForkIdx : hist[i].site = site /\ hist[i].child # 0
FailedAt(site) ==
    \E i \in ForkIdx : hist[i].site = site /\ hist[i].child = 0

BothSucceed == Succeeded(1) /\ Succeeded(2)

\* Every process of the run has terminated.
Terminated == \A q \in PidPool : st[q] # "running"

\* The processes the run has created by fork, and the one a site created.
Created == {hist[i].child : i \in ForkIdx} \ {0}
CreatedAt(site) == {hist[i].child : i \in {j \in ForkIdx : hist[j].site = site}} \ {0}

\* Number of output lines with marker m.
CountMark(m) == Cardinality({i \in DOMAIN out : out[i].mark = m})

HasExited(p) == \E i \in ExitIdx : hist[i].proc = p

----------------------------------------------------------------------------
\* C1 (as stated): when both fork calls succeed, the final output is exactly
\* three lines: one A line, one B line and one C line.
C1_ThreeLines ==
    (BothSucceed /\ Terminated) =>
        /\ Len(out) = 3
        /\ CountMark("A") = 1
        /\ CountMark("B") = 1
        /\ CountMark("C") = 1

\* C1 (amended): when both fork calls succeed, the final output holds exactly
\* one B line, exactly one C line and the two A lines the original printed,
\* one per fork call; these four lines are the whole output when stdout is
\* line buffered, and a fully buffered stdout adds one line, the copy of the
\* first A line that C inherited and wrote itself.
C1_OriginalPrintsTwice ==
    (BothSucceed /\ Terminated) =>
        /\ CountMark("B") = 1
        /\ CountMark("C") = 1
        /\ CountMark("F") = 0
        /\ Cardinality({i \in DOMAIN out : out[i].mark = "A" /\ out[i].by = orig}) = 2
        /\ \E i, j \in DOMAIN out :
              /\ out[i].by = orig /\ out[i].stmt = 11
              /\ out[j].by = orig /\ out[j].stmt = 25
        /\ mode = "line" => Len(out) = 4
        /\ mode = "full" =>
              /\ Len(out) = 5
              /\ \E i \in DOMAIN out :
                    out[i].stmt = 11 /\ out[i].by \in CreatedAt(2)

C1_Witness ==
    BothSucceed /\ Terminated /\ mode = "line" /\ Len(out) = 4 /\ CountMark("A") = 2

----------------------------------------------------------------------------
\* C2: when the first fork call fails, the output is one failure line and
\* nothing else, no process is ever created, the second fork call is never
\* executed, and the only process exits with code 0.
C2_FirstForkFails ==
    FailedAt(1) =>
        /\ \A i \in DOMAIN out : out[i].mark = "F"
        /\ Len(out) <= 1
        /\ Terminated => Len(out) = 1
        /\ \A q \in PidPool \ {orig} : st[q] = "free"
        /\ Created = {}
        /\ Cardinality(ForkIdx) = 1
        /\ \A i \in ForkIdx : hist[i].site = 1
        /\ \A q \in PidPool : pc[q] \notin {"fork2", "report2"}
        /\ \A i \in ExitIdx : hist[i].proc = orig /\ hist[i].code = 0
        /\ Terminated => HasExited(orig)

C2_Witness ==
    FailedAt(1) /\ Terminated /\ Len(out) = 1 /\ HasExited(orig)

----------------------------------------------------------------------------
\* C3: once a fork call has failed in a process, that process prints the
\* failure message, exactly once by the time it terminates, prints no other
\* line and calls fork no more; the failure message is in the output of a run
\* at most once.
C3_FailureReportedOnce ==
    /\ \A i \in ForkIdx :
          hist[i].child = 0 =>
             LET p == hist[i].proc
                 later == {j \in PrintIdx : j > i /\ hist[j].proc = p}
             IN /\ \A j \in ForkIdx : j > i => hist[j].proc # p
                /\ \A j \in later : hist[j].mark = "F"
                /\ Cardinality(later) <= 1
                /\ \A k \in ExitIdx :
                      hist[k].proc = p =>
                         \E j \in later : j < k
    /\ CountMark("F") <= 1
    /\ Cardinality({j \in PrintIdx : hist[j].mark = "F"}) <= 1

C3_Witness ==
    FailedAt(2) /\ Terminated /\ CountMark("F") = 1

----------------------------------------------------------------------------
\* C4: every process that terminates does so with exit code 0, whatever the
\* fork calls returned.
C4_ExitCodeZero ==
    \A i \in ExitIdx : hist[i].code = 0

C4_Witness ==
    /\ FailedAt(2) /\ Terminated
    /\ Cardinality({hist[i].proc : i \in ExitIdx}) = 2

----------------------------------------------------------------------------
\* C5: when no fork call of the run has failed, the original is the only
\* process that saw a positive value from fork, and it saw one from each of
\* its calls; every other process saw only the value 0, from the call that
\* created it; and a successful call has created a duplicate.
C5_OneOriginal ==
    ((\A i \in ForkIdx : hist[i].child # 0) /\ ForkIdx # {}) =>
        /\ \A o \in obs : o.val > 0 => o.proc = orig
        /\ \A o \in obs : o.proc = orig => o.val > 0
        /\ \A i \in ForkIdx :
              /\ hist[i].proc = orig
              /\ \E o \in obs : o.proc = orig /\ o.site = hist[i].site /\ o.val > 0
        /\ Cardinality({o \in obs : o.site = 1 /\ o.val > 0}) = 1
        /\ Created # {}
        /\ orig \notin Created
        /\ \A q \in Created :
              /\ \E o \in obs : o.proc = q /\ o.val = 0 /\ q \in CreatedAt(o.site)
              /\ \A o \in obs : o.proc = q => o.val = 0 /\ q \in CreatedAt(o.site)

C5_Witness ==
    BothSucceed /\ Terminated /\ Cardinality(Created) = 2

----------------------------------------------------------------------------
\* A line with source statement s1 reached the output before one with s2
\* (each written by the process that printed it).
Before(s1, s2) ==
    \E i, j \in DOMAIN out :
        /\ i < j
        /\ out[i].stmt = s1 /\ out[i].by = out[i].from
        /\ out[j].stmt = s2 /\ out[j].by = out[j].from

\* C6: the program fixes no order between the lines of different processes:
\* a process that has reached a printf, or the return that writes out its
\* buffer, is never kept from executing it by what another process has or
\* has not yet printed, so whichever of two such processes runs first writes
\* first.
C6_NoOrderImposed ==
    \A p \in PidPool :
        st[p] = "running" =>
            /\ pc[p] = "report1" => ENABLED Report1(p)
            /\ pc[p] = "report2" => ENABLED Report2(p)
            /\ pc[p] = "ret" => ENABLED Return(p)

\* A run in which B's line precedes both A lines and C's line, and C's line
\* precedes the second A line.
C6_Witness ==
    /\ BothSucceed /\ Terminated
    /\ Before(15, 11) /\ Before(15, 25) /\ Before(15, 29) /\ Before(29, 25)

\* The opposite orders: B's line after both A lines and after C's line, and
\* C's line after the second A line.
C6_ReachOpposite ==
    /\ BothSucceed /\ Terminated
    /\ Before(11, 15) /\ Before(25, 15) /\ Before(29, 15) /\ Before(25, 29)

----------------------------------------------------------------------------
\* The outcome of the fork call at a site, the shape of the process tree and
\* the number of output lines per marker.
Outcome(site) ==
    IF Succeeded(site) THEN "ok" ELSE IF FailedAt(site) THEN "fail" ELSE "none"

TreeShape ==
    {<<hist[i].site, hist[i].proc = orig>> : i \in {j \in ForkIdx : hist[j].child # 0}}

MarkCounts == [m \in {"A", "B", "C", "F"} |-> CountMark(m)]

\* C7: the fork outcomes determine the final result whatever the schedule:
\* the tree of processes and the number of output lines of each marker at
\* termination are those of this table (per way of buffering stdout).
C7_Repeatable ==
    Terminated =>
        /\ Cardinality(Created) = Cardinality(TreeShape)
        /\ Outcome(1) = "fail" =>
              /\ Outcome(2) = "none"
              /\ TreeShape = {}
              /\ MarkCounts = [A |-> 0, B |-> 0, C |-> 0, F |-> 1]
        /\ (Outcome(1) = "ok" /\ Outcome(2) = "fail") =>
              /\ TreeShape = {<<1, TRUE>>}
              /\ MarkCounts = [A |-> 1, B |-> 1, C |-> 0, F |-> 1]
        /\ (Outcome(1) = "ok" /\ Outcome(2) = "ok") =>
              /\ TreeShape = {<<1, TRUE>>, <<2, TRUE>>}
              /\ MarkCounts = [A |-> IF mode = "line" THEN 2 ELSE 3,
                               B |-> 1, C |-> 1, F |-> 0]
        /\ Outcome(1) # "none"
        /\ Outcome(1) = "ok" => Outcome(2) # "none"

C7_Witness ==
    /\ Terminated /\ BothSucceed
    /\ out[1].mark = "B" /\ out[Len(out)].mark = "A"

----------------------------------------------------------------------------
\* C8: the original never waits for a child: while it runs its next step is
\* always enabled, whatever B and C are doing, and a process created by fork
\* is never reclaimed before the original has exited.
C8_NeverWaits ==
    /\ st[orig] = "running" => ENABLED Step(orig)
    /\ \A c \in Created : st[c] = "free" => HasExited(orig)
    /\ \A c \in Created : (st[c] = "zombie" /\ ~HasExited(orig)) => ~ENABLED Reap(c)

\* The original has exited while one child is still running, and another
\* child, terminated before the original exited, is still unreclaimed.
C8_Witness ==
    /\ HasExited(orig)
    /\ \E c \in Created : st[c] = "running"
    /\ \E b \in Created :
          /\ st[b] = "zombie"
          /\ \E i, j \in ExitIdx :
                hist[i].proc = b /\ hist[j].proc = orig /\ i < j

\* A child has terminated and is unreclaimed while the original is running.
C8_ReachZombie ==
    st[orig] = "running" /\ \E c \in Created : st[c] = "zombie"

----------------------------------------------------------------------------
\* C9: under fair scheduling the run reaches, and stays in, a state in which
\* every process has terminated; a running process can always take its next
\* step whatever the others do; a process exits only after a printf of its
\* own; and a run makes at most two fork calls and creates at most two
\* processes.
C9_Terminates ==
    /\ <>[]Terminated
    /\ [](\A p \in PidPool : st[p] = "running" => ENABLED Step(p))
    /\ [](Cardinality(ForkIdx) <= 2 /\ Cardinality(Created) <= 2)
    /\ [](\A i \in ExitIdx :
            \E j \in PrintIdx : j < i /\ hist[j].proc = hist[i].proc)

C9_Witness ==
    /\ Terminated /\ BothSucceed
    /\ \A q \in Created \cup {orig} : HasExited(q)

----------------------------------------------------------------------------
\* The values the processes saw the fork call with history index i return.
Returns(i) == {[proc |-> o.proc, val |-> o.val] : o \in {x \in obs : x.call = i}}

\* C10: a successful fork call returns in two processes, the identifier of
\* the new process in the caller and 0 in the new process; a failed call
\* returns in the caller alone, a negative value.  The identifier in the
\* first A line is that of the process that prints B, and the identifier in
\* the second A line that of the process that prints C.
C10_ForkResults ==
    /\ \A i \in ForkIdx :
          LET p == hist[i].proc
              c == hist[i].child
          IN IF c # 0
             THEN /\ Returns(i) = {[proc |-> p, val |-> c], [proc |-> c, val |-> 0]}
                  /\ c > 0 /\ c # p
             ELSE /\ Cardinality(Returns(i)) = 1
                  /\ \A r \in Returns(i) : r.proc = p /\ r.val < 0
    /\ \A i \in PrintIdx :
          /\ hist[i].stmt = 11 => CreatedAt(1) = {hist[i].id}
          /\ hist[i].stmt = 25 => CreatedAt(2) = {hist[i].id}
          /\ hist[i].stmt = 15 => CreatedAt(1) = {hist[i].proc}
          /\ hist[i].stmt = 29 => CreatedAt(2) = {hist[i].proc}
    /\ \A i \in DOMAIN out :
          /\ out[i].stmt = 11 => CreatedAt(1) = {out[i].id}
          /\ out[i].stmt = 25 => CreatedAt(2) = {out[i].id}

C10_Witness ==
    /\ BothSucceed /\ Terminated
    /\ \E i, j, k, l \in PrintIdx :
          /\ hist[i].stmt = 11 /\ hist[j].stmt = 15 /\ hist[i].id = hist[j].proc
          /\ hist[k].stmt = 25 /\ hist[l].stmt = 29 /\ hist[k].id = hist[l].proc

----------------------------------------------------------------------------
\* Number of processes the run has had: the original and those created.
ProcessCount == 1 + Cardinality(Created)

\* C11: at most three processes ever exist and fork is called at most twice,
\* only by the original; the process created by the first call keeps pid = 0,
\* never reaches the second fork block and never calls fork, so no process
\* is created by a created process.  At termination there are 3 processes
\* when both calls succeeded, 2 when only the first did, 1 when it failed.
C11_TreeShape ==
    /\ ProcessCount <= 3
    /\ Cardinality(ForkIdx) <= 2
    /\ \A i \in ForkIdx : hist[i].proc = orig /\ hist[i].proc \notin Created
    /\ \A i, j \in ForkIdx : i # j => hist[i].site # hist[j].site
    /\ \A b \in CreatedAt(1) :
          /\ pc[b] \notin {"fork1", "fork2", "report2"}
          /\ st[b] = "running" => pid[b] = 0
          /\ \A o \in obs : o.proc = b => o.site = 1 /\ o.val = 0
    /\ \A c \in Created : \A i \in ForkIdx : hist[i].proc # c
    /\ Terminated =>
          /\ (Outcome(1) = "ok" /\ Outcome(2) = "ok") => ProcessCount = 3
          /\ (Outcome(1) = "ok" /\ Outcome(2) = "fail") => ProcessCount = 2
          /\ Outcome(1) = "fail" => ProcessCount = 1
          /\ Cardinality({hist[i].proc : i \in ExitIdx}) = ProcessCount

\* Both calls have succeeded and B has passed the test of line 18 without
\* entering the block.
C11_Witness ==
    /\ BothSucceed
    /\ \E b \in CreatedAt(1) : st[b] = "running" /\ pc[b] = "ret" /\ pid[b] = 0
    /\ ProcessCount = 3

----------------------------------------------------------------------------
\* C12: a step of process p leaves the local state (pid, position in main,
\* stdio buffer) and the status of every other existing process unchanged;
\* in particular the copy of pid of the process created by the first fork
\* stays 0 for as long as that process exists, also across the original's
\* assignment pid = fork() at the second call site.
C12_LocalStatePerProcess ==
    /\ [][\A p \in PidPool :
            Step(p) =>
               \A q \in PidPool \ {p} :
                  st[q] # "free" =>
                     /\ pid'[q] = pid[q]
                     /\ pc'[q] = pc[q]
                     /\ buf'[q] = buf[q]
                     /\ st'[q] = st[q]]_vars
    /\ [][\A b \in CreatedAt(1) :
            (st[b] = "running" /\ Fork2(orig)) => pid'[b] = 0 /\ pid[b] = 0]_vars
    /\ [](\A b \in CreatedAt(1) : st[b] # "free" => pid[b] = 0)

\* The original has made its second assignment to pid while B is running
\* with pid = 0 and has not yet printed.
C12_Witness ==
    /\ Succeeded(1)
    /\ \E i \in ForkIdx : hist[i].site = 2
    /\ st[orig] = "running" /\ pid[orig] # 0
    /\ \E b \in CreatedAt(1) :
          st[b] = "running" /\ pc[b] = "report1" /\ pid[b] = 0 /\ pid[orig] # b

----------------------------------------------------------------------------
\* C13: when the first fork succeeds and the second fails, no C line is ever
\* printed, the process created by the first fork prints its B line and
\* nothing else and calls fork never, and every exit code is 0; at
\* termination the output is exactly three lines: an A line followed, not
\* necessarily directly, by the failure line, both from the original, and
\* one B line.
C13_SecondForkFails ==
    (Succeeded(1) /\ FailedAt(2)) =>
        /\ CountMark("C") = 0
        /\ \A i \in PrintIdx : hist[i].mark # "C"
        /\ CreatedAt(2) = {}
        /\ \A i \in ExitIdx : hist[i].code = 0
        /\ \A b \in CreatedAt(1) :
              /\ \A i \in PrintIdx : hist[i].proc = b => hist[i].stmt = 15
              /\ \A i \in ForkIdx : hist[i].proc # b
              /\ Cardinality({i \in PrintIdx : hist[i].proc = b}) <= 1
        /\ Terminated =>
              /\ Len(out) = 3
              /\ MarkCounts = [A |-> 1, B |-> 1, C |-> 0, F |-> 1]
              /\ \E i, j \in DOMAIN out :
                    /\ i < j
                    /\ out[i].mark = "A" /\ out[i].from = orig /\ out[i].by = orig
                    /\ out[j].mark = "F" /\ out[j].from = orig /\ out[j].by = orig
              /\ \E k \in DOMAIN out :
                    out[k].mark = "B" /\ out[k].by \in CreatedAt(1)
              /\ Cardinality({hist[i].proc : i \in ExitIdx}) = 2

\* The run has ended with B's line between the original's two lines.
C13_Witness ==
    /\ Succeeded(1) /\ FailedAt(2) /\ Terminated
    /\ Len(out) = 3
    /\ out[1].mark = "A" /\ out[2].mark = "B" /\ out[3].mark = "F"

----------------------------------------------------------------------------
\* C14: each printf contributes its line to the combined output exactly once,
\* however stdout is buffered: a line is written only by the process that
\* printed it, no printf's line is written twice, the process created by the
\* second fork never writes a copy of the first A line, and at termination
\* the output has one line per printf executed.
C14_EachPrintfOnce ==
    /\ \A i \in DOMAIN out : out[i].by = out[i].from
    /\ \A i, j \in DOMAIN out :
          (i # j) => ~(out[i].from = out[j].from /\ out[i].stmt = out[j].stmt)
    /\ \A c \in CreatedAt(2) :
          \A i \in DOMAIN out : out[i].by = c => out[i].stmt # 11
    /\ Terminated => Len(out) = Cardinality(PrintIdx)

\* The same statement for a line-buffered stdout alone.
C14_LineBufferedOnce ==
    mode = "line" => C14_EachPrintfOnce

----------------------------------------------------------------------------
\* C15: whatever the schedule, the original executes the printf of its first
\* A line before it calls fork the second time, hence before its second
\* report and before C's printf; in the output, every second A line, second
\* failure line and C line comes after a first A line, and the first line of
\* the output is never C's.
C15_FirstALineFirst ==
    /\ \A i \in ForkIdx :
          hist[i].site = 2 =>
             \E j \in PrintIdx :
                j < i /\ hist[j].proc = hist[i].proc /\ hist[j].stmt = 11
    /\ \A i \in PrintIdx :
          hist[i].stmt \in {22, 25, 29} =>
             \E j \in PrintIdx : j < i /\ hist[j].proc = orig /\ hist[j].stmt = 11
    /\ \A i \in DOMAIN out :
          out[i].stmt \in {22, 25, 29} =>
             \E j \in DOMAIN out : j < i /\ out[j].stmt = 11 /\ out[j].from = orig
    /\ out # <<>> => out[1].mark # "C"

\* C has terminated, its line is in the output, and the original has not yet
\* made its second report.
C15_Witness ==
    /\ BothSucceed
    /\ st[orig] = "running" /\ pc[orig] = "report2"
    /\ \E c \in CreatedAt(2) : HasExited(c)
    /\ CountMark("C") = 1

\* The stricter reading, by writing process: the first A line as written by
\* the original itself precedes C's line in the output.
C15_OwnWriteFirst ==
    \A i \in DOMAIN out :
        out[i].stmt = 29 =>
           \E j \in DOMAIN out : j < i /\ out[j].stmt = 11 /\ out[j].by = orig

----------------------------------------------------------------------------
\* C16: the child identifiers the original prints in its first and in its
\* second A line are different, and the two fork calls created different
\* processes: while the original runs, the process created by the first call
\* is running or an unreclaimed zombie, so its identifier is not free for
\* the second call.
C16_DistinctChildIds ==
    /\ \A i, j \in PrintIdx :
          (hist[i].stmt = 11 /\ hist[j].stmt = 25) => hist[i].id # hist[j].id
    /\ \A i, j \in DOMAIN out :
          (out[i].stmt = 11 /\ out[j].stmt = 25) => out[i].id # out[j].id
    /\ CreatedAt(1) \cap CreatedAt(2) = {}
    /\ st[orig] = "running" =>
          \A b \in CreatedAt(1) : st[b] # "free" /\ b \notin ForkChoices
    /\ (BothSucceed /\ Terminated) =>
          \E i, j \in DOMAIN out :
             /\ out[i].stmt = 11 /\ out[j].stmt = 25
             /\ out[i].id \in CreatedAt(1) /\ out[j].id \in CreatedAt(2)

\* B had exited before the second fork call was made, and both A lines are
\* in the output.
C16_Witness ==
    /\ BothSucceed /\ Terminated
    /\ \E i \in ExitIdx, j \in ForkIdx :
          i < j /\ hist[j].site = 2 /\ hist[i].proc \in CreatedAt(1)
    /\ \E i, j \in DOMAIN out : out[i].stmt = 11 /\ out[j].stmt = 25

====
